---------------------------- MODULE Spec2Model ----------------------------
(***************************************************************************)
(* Payment-request verification of lib/paymentrequest.py.                   *)
(*                                                                         *)
(* The state is one PaymentRequest object (its raw bytes, the requestor    *)
(* and error attributes), the module-level trust store (ca_list and        *)
(* ca_keyID), and what the last call of verify() did.  The collaborators   *)
(* the file imports (x509, tlslite RSA keys, protobuf, the contacts        *)
(* resolver, bitcoin.verify_message) are modelled by what the code reads   *)
(* from them.                                                              *)
(***************************************************************************)
EXTENDS Naturals, Sequences, FiniteSets, TLC

\* The longest list of certificates a request supplies in pki_data.
MaxChain == 3

----------------------------------------------------------------------------
(* Values the collaborators hand to the code                               *)

\* x509.ALGO_* : the signature algorithm a certificate declares.
ALGO_RSA_SHA1 == "rsa-sha1"
ALGO_RSA_SHA256 == "rsa-sha256"
ALGO_RSA_SHA384 == "rsa-sha384"
ALGO_RSA_SHA512 == "rsa-sha512"
ALGO_OTHER == "ecdsa-sha256"

\* A signature is the key that made it and the digest it was made over; the
\* empty signature (no bytes) has neither.
Signature(key, digest) == [key |-> key, digest |-> digest]
NoSignature == Signature("", "")

\* pubkey.hashAndVerify(sig, data): PKCS#1 v1.5 over the SHA-1 of the data.
hashAndVerify(pubkey, sig) == sig.key = pubkey /\ sig.digest = "sha1"

\* pubkey.verify(sig, PREFIX + digest(data)): PKCS#1 v1.5 over a given digest.
rsaVerify(pubkey, sig, digest) == sig.key = pubkey /\ sig.digest = digest

\* bitcoin.verify_message(address, sig, message): the signature recovers to
\* the key of the address.
verify_message(address, sig) == sig.key = address /\ sig.digest = "btc"

\* A parsed X.509 certificate, by the attributes the code reads.  A blob that
\* x509.X509.parseBinary cannot parse has parses = FALSE.
Certificate(cn, date, ca, publicKey, issuerKeyID, algo, sig, parses) ==
    [cn |-> cn, date |-> date, ca |-> ca, publicKey |-> publicKey,
     issuerKeyID |-> issuerKeyID, algo |-> algo, sig |-> sig, parses |-> parses]

get_common_name(x) == x.cn
\* check_ca with the CA flag never looked at.
check_ca_skipped(x) == TRUE
check_ca(x) == x.ca
get_issuer_keyID(x) == x.issuerKeyID
\* The subject key identifier names the certificate's own key.
get_keyID(x) == x.publicKey
\* The fingerprint is a digest of the certificate's bytes, taken collision
\* free: it identifies the certificate.
getFingerprint(x) == x
\* x.check_date() raises outside the validity window; str(e) is the message.
CertificateExpired == "Certificate has expired."
check_date(x) == IF x.date = "valid" THEN "" ELSE CertificateExpired

----------------------------------------------------------------------------
(* The certificates and requests the model draws its inputs from           *)

RootA ==
    Certificate(<<"A">>, "valid", TRUE, "kRoot", "kRoot", ALGO_RSA_SHA256,
                Signature("kRoot", "sha256"), TRUE)
Inter ==
    Certificate(<<"I">>, "valid", TRUE, "kInter", "kRoot", ALGO_RSA_SHA384,
                Signature("kRoot", "sha384"), TRUE)
\* Inter without the CA flag.
InterNotCA == [Inter EXCEPT !.ca = FALSE]
\* Inter naming RootA as its issuer but signed by another key.
InterForged == [Inter EXCEPT !.sig = Signature("kOther", "sha384")]
\* Inter issued by a certificate authority the trust store does not know.
InterOrphan ==
    [Inter EXCEPT !.issuerKeyID = "kOther", !.sig = Signature("kOther", "sha384")]
\* Inter signed by RootA with an algorithm the code does not support.
InterOddAlgo ==
    [Inter EXCEPT !.algo = ALGO_OTHER, !.sig = Signature("kRoot", "ecdsa")]
\* Bytes that are no certificate.
Garbled ==
    Certificate(<<>>, "valid", FALSE, "", "", ALGO_OTHER, NoSignature, FALSE)

IssuerPool ==
    {RootA, Inter, InterNotCA, InterForged, InterOrphan, InterOddAlgo, Garbled}

CommonNames == {<<"m">>, <<"*", ".", "m">>, <<"*", ".">>, <<"*", "m">>}
Dates == {"valid", "expired"}
\* How a leaf was issued: by Inter, by RootA, or by Inter with an algorithm
\* the code does not support.
Issuances ==
    {[issuerKeyID |-> "kInter", algo |-> ALGO_RSA_SHA1,
      sig |-> Signature("kInter", "sha1")],
     [issuerKeyID |-> "kRoot", algo |-> ALGO_RSA_SHA512,
      sig |-> Signature("kRoot", "sha512")],
     [issuerKeyID |-> "kInter", algo |-> ALGO_OTHER,
      sig |-> Signature("kInter", "ecdsa")]}

LeafPool ==
    {Certificate(cn, d, FALSE, "kLeaf", s.issuerKeyID, s.algo, s.sig, TRUE) :
        cn \in CommonNames, d \in Dates, s \in Issuances} \cup {Garbled}

\* pki_data of an x509 request: a leaf followed by its issuers, or nothing.
Chains ==
    {<<>>} \cup
    {<<l>> \o t : l \in LeafPool,
                  t \in UNION {[1..n -> IssuerPool] : n \in 0..(MaxChain - 1)}}

\* ca_list as x509.load_certificates leaves it: empty when the bundle could
\* not be read, else the trusted certificates by fingerprint.
TrustStores == {{}, {RootA}, {RootA, Inter}}

Aliases == {<<"b", "o", "b">>}
Addresses == {"kAlias", "kOther"}

X509Signatures ==
    {NoSignature} \cup
    {Signature(k, d) : k \in {"kLeaf", "kOther"}, d \in {"sha1", "sha256"}}
AliasSignatures ==
    {NoSignature, Signature("kAlias", "btc"), Signature("kOther", "btc")}

\* A decoded pb2.PaymentRequest, by the fields verify reads.
Envelope(pki_type, certs, alias, signature) ==
    [pki_type |-> pki_type, certs |-> certs, alias |-> alias,
     signature |-> signature]

Envelopes ==
    {Envelope(t, c, <<>>, s) :
        t \in {"x509+sha256", "x509+sha1"}, c \in Chains, s \in X509Signatures}
    \cup
    {Envelope(t, <<>>, a, s) :
        t \in {"dnssec+btc", "dnssec+ecdsa"}, a \in Aliases, s \in AliasSignatures}
    \cup
    {Envelope(t, <<>>, <<>>, s) :
        t \in {"none", "x509+md5"}, s \in {NoSignature, Signature("kOther", "sha1")}}

\* The raw bytes of a request: none, bytes protobuf cannot decode, or an
\* encoded envelope.
Raw(kind, env) == [kind |-> kind, env |-> env]
EmptyEnvelope == Envelope("none", <<>>, <<>>, NoSignature)
Raws ==
    {Raw("empty", EmptyEnvelope), Raw("garbage", EmptyEnvelope)} \cup
    {Raw("envelope", e) : e \in Envelopes}

\* What contacts.resolve(alias) does: raise, or return a record.
ResolverAnswers ==
    [raises : {FALSE}, validated : BOOLEAN, address : Addresses] \cup
    {[raises |-> TRUE, validated |-> FALSE, address |-> "kOther"]}
\* No call of contacts.resolve was made.
NoAnswer == [raises |-> FALSE, validated |-> FALSE, address |-> ""]

----------------------------------------------------------------------------
(* The status strings verify leaves in self.error                          *)

\* self.error: a message, and for the success message of the X.509 path the
\* common name appended to it.
Status(msg, name) == [msg |-> msg, name |-> name]
\* self.error before anything assigned it.
NoStatus == Status("", <<>>)
CannotParse == Status("cannot parse payment request", <<>>)
EmptyRequest == Status("Empty request", <<>>)
MissingSignature == Status("No signature", <<>>)
UnsupportedPkiType ==
    Status("ERROR: Unsupported PKI Type for Message Signature", <<>>)
NoTrustStore == Status("Trusted certificate authorities list not found", <<>>)
NotACertificateAuthority == Status("ERROR: Supplied CA Certificate Error", <<>>)
NoCertificates ==
    Status("ERROR: CA Certificate Chain Not Provided by Payment Processor", <<>>)
UntrustedCA == Status("Supplied CA Not Found in Trusted CA Store.", <<>>)
UnsupportedAlgorithm == Status("Algorithm not supported", <<>>)
ChainSignatureInvalid ==
    Status("Certificate not Signed by Provided CA Certificate Chain", <<>>)
EnvelopeSignatureInvalid ==
    Status("ERROR: Invalid Signature for Payment Request Data", <<>>)
SignedByTrustedCA(name) == Status("Signed by Trusted CA: ", name)
AliasUnverified == Status("Alias verification failed (DNSSEC)", <<>>)
VerifiedWithDNSSEC == Status("Verified with DNSSEC", <<>>)
SignatureInvalid == Status("verify failed", <<>>)
UnknownAlgo == Status("unknown algo", <<>>)

----------------------------------------------------------------------------
(* The program                                                             *)

VARIABLES
    raw,         \* PaymentRequest.raw: the bytes the request was built from
    ca_list,     \* the module's trust store
    requestor,   \* PaymentRequest.requestor: <<>> for None, else <<name>>
    error,       \* PaymentRequest.error
    result,      \* how the last call of verify ended: "True", "False",
                 \* "None" (a bare return), "raised"; "nocall" before any
    x509_chain,  \* verify_x509's x509_chain when the last call ended
    reached,     \* the steps the last call of verify entered
    answer,      \* what contacts.resolve gave the last call, if it asked
    verified,    \* some call of verify has returned True
    repeated,    \* the last call of verify came after another one that the
                 \* resolver answered the same
    invoices,    \* InvoiceStore.invoices: key -> PaymentRequest object
    file,        \* the file 'invoices' under config.path
    constructed, \* InvoiceStore.__init__ has returned
    clock,       \* the time, in half seconds
    last,        \* the last call on the store: its name and arguments,
                 \* whether the key was stored when it began, whether it
                 \* raised
    pc,          \* per thread: where its call on the store stands
    l,           \* per thread: the dict its save has built
    ack_pc,      \* where the call of send_ack stands
    ack_args,    \* the request send_ack is called on, and its arguments
    posts,       \* the POSTs issued so far, each with how it ended
    reply,       \* r: the response of the last POST that got one
    ack_result   \* how send_ack ended

requestVars ==
    <<raw, ca_list, requestor, error, result, x509_chain, reached, answer,
      verified, repeated>>
storeVars == <<invoices, file, constructed, clock, last>>
threadVars == <<pc, l>>
ackVars == <<ack_pc, ack_args, posts, reply, ack_result>>

\* ca_keyID.get(keyID): the trusted certificates filed under a key identifier
\* (none, or one).
ca_keyID(store, keyID) == {r \in store : get_keyID(r) = keyID}

\* requestor.startswith('*.') and requestor[2:]
StripWildcard(cn) ==
    IF Len(cn) >= 2 /\ cn[1] = "*" /\ cn[2] = "."
    THEN SubSeq(cn, 3, Len(cn))
    ELSE cn

Unknown == <<"u", "n", "k", "n", "o", "w", "n">>

\* PaymentRequest.get_requestor of a requestor attribute: None and the empty
\* string are both falsy.
RequestorOf(r) == IF r = <<>> \/ r[1] = <<>> THEN Unknown ELSE r[1]
get_requestor == RequestorOf(requestor)

\* How a call ends: the value returned (or "raised"), the attributes it
\* leaves, the chain it built and the steps it entered.
Outcome(ret, err, req, chain, steps) ==
    [ret |-> ret, error |-> err, requestor |-> req, x509_chain |-> chain,
     reached |-> steps]

\* The loop that parses the supplied certificates, from index i (1-based):
\* where it stopped ("done", "raised", "date", "ca"), the requestor and the
\* chain it leaves.
RECURSIVE ParseCertificates(_, _, _, _)
ParseCertificates(certificate, i, req, chain) ==
    IF i > Len(certificate)
    THEN [stop |-> "done", requestor |-> req, chain |-> chain]
    ELSE LET x == certificate[i] IN
         IF ~x.parses
         THEN [stop |-> "raised", requestor |-> req, chain |-> chain]
         ELSE IF i = 1
         THEN IF check_date(x) # ""
              THEN [stop |-> "date", requestor |-> req,
                    chain |-> Append(chain, x)]
              ELSE ParseCertificates(certificate, i + 1,
                                     <<StripWildcard(get_common_name(x))>>,
                                     Append(chain, x))
         ELSE IF ~check_ca(x)
              THEN [stop |-> "ca", requestor |-> req,
                    chain |-> Append(chain, x)]
              ELSE ParseCertificates(certificate, i + 1, req, Append(chain, x))

\* ResolveTrustAnchor that finds the stored root but leaves it off the chain.
ResolveTrustAnchorNoAppend(chain, store) ==
    LET ca == chain[Len(chain)]
        f == ca_keyID(store, get_issuer_keyID(ca))
    IN  IF getFingerprint(ca) \in store \/ f # {} THEN chain ELSE <<>>

\* "if the root CA is not supplied, add it to the chain": the chain after
\* trust-anchor resolution, or <<>> when the last certificate is neither
\* trusted nor issued by a trusted one.
ResolveTrustAnchor(chain, store) ==
    LET ca == chain[Len(chain)]
        f == ca_keyID(store, get_issuer_keyID(ca))
    IN  IF getFingerprint(ca) \in store THEN chain
        ELSE IF f # {} THEN Append(chain, CHOOSE root \in f : TRUE)
        ELSE <<>>

\* One link of the chain: "unsupported", or whether prev_x's signature
\* verifies under x's public key with the algorithm prev_x declares.
VerifyLink(prev_x, x) ==
    LET algo == prev_x.algo
        sig == prev_x.sig
        pubkey == x.publicKey
    IN  CASE algo = ALGO_RSA_SHA1 ->
                IF hashAndVerify(pubkey, sig) THEN "ok" ELSE "invalid"
          [] algo = ALGO_RSA_SHA256 ->
                IF rsaVerify(pubkey, sig, "sha256") THEN "ok" ELSE "invalid"
          [] algo = ALGO_RSA_SHA384 ->
                IF rsaVerify(pubkey, sig, "sha384") THEN "ok" ELSE "invalid"
          [] algo = ALGO_RSA_SHA512 ->
                IF rsaVerify(pubkey, sig, "sha512") THEN "ok" ELSE "invalid"
          [] OTHER -> "unsupported"

\* VerifyChain reporting the failure nearest the root instead of the one
\* nearest the leaf.
VerifyChainLastFailure(chain, i) ==
    LET bad == {j \in i..(Len(chain) - 1) :
                    VerifyLink(chain[j], chain[j + 1]) # "ok"}
    IN  IF bad = {} THEN "ok"
        ELSE LET j == CHOOSE k \in bad : \A m \in bad : m <= k
             IN  VerifyLink(chain[j], chain[j + 1])

\* "verify the chain of signatures", from link i (x509_chain[i-1] under
\* x509_chain[i], 0-based; here the pair chain[i], chain[i+1]): the first
\* failure, or "ok".
RECURSIVE VerifyChain(_, _)
VerifyChain(chain, i) ==
    IF i >= Len(chain) THEN "ok"
    ELSE LET v == VerifyLink(chain[i], chain[i + 1]) IN
         IF v # "ok" THEN v ELSE VerifyChain(chain, i + 1)

\* VerifyEnvelope with the result of the verification not looked at.
VerifyEnvelopeUnchecked(paymntreq, pubkey0) == TRUE

\* "verify the BIP70 signature": under the leaf's key, with the digest the
\* PKI type names.
VerifyEnvelope(paymntreq, pubkey0) ==
    IF paymntreq.pki_type = "x509+sha256"
    THEN rsaVerify(pubkey0, paymntreq.signature, "sha256")
    ELSE hashAndVerify(pubkey0, paymntreq.signature)

\* The certificate the success message names: ca, bound to the last supplied
\* certificate before the chain was extended.
NamedCA(certificate, chain) == certificate[Len(certificate)]

\* PaymentRequest.verify_x509
verify_x509(paymntreq, store, req, err) ==
    IF store = {}
    THEN Outcome("False", NoTrustStore, req, <<>>, {})
    ELSE
    LET certificate == paymntreq.certs
        cert_num == Len(certificate)
        p == ParseCertificates(certificate, 1, req, <<>>)
    IN  CASE p.stop = "raised" ->
                Outcome("raised", err, p.requestor, p.chain, {})
          [] p.stop = "date" ->
                Outcome("None", Status(check_date(certificate[1]), <<>>),
                        p.requestor, p.chain, {})
          [] p.stop = "ca" ->
                Outcome("None", NotACertificateAuthority, p.requestor,
                        p.chain, {})
          [] OTHER ->
            IF ~(cert_num > 1)
            THEN Outcome("False", NoCertificates, p.requestor, p.chain, {})
            ELSE
            LET chain == ResolveTrustAnchor(p.chain, store)
                links == VerifyChain(chain, 1)
            IN  IF chain = <<>>
                THEN Outcome("False", UntrustedCA, p.requestor, p.chain,
                             {"trust_anchor"})
                ELSE IF links = "unsupported"
                THEN Outcome("False", UnsupportedAlgorithm, p.requestor, chain,
                             {"trust_anchor", "chain_signatures"})
                ELSE IF links = "invalid"
                THEN Outcome("False", ChainSignatureInvalid, p.requestor, chain,
                             {"trust_anchor", "chain_signatures"})
                ELSE IF ~VerifyEnvelope(paymntreq, chain[1].publicKey)
                THEN Outcome("False", EnvelopeSignatureInvalid, p.requestor,
                             chain,
                             {"trust_anchor", "chain_signatures",
                              "envelope_signature"})
                ELSE Outcome("True",
                             SignedByTrustedCA(
                                 get_common_name(NamedCA(certificate, chain))),
                             p.requestor, chain,
                             {"trust_anchor", "chain_signatures",
                              "envelope_signature"})

\* AliasValidated with the resolver's verdict never looked at.
AliasValidatedSkipped(info) == TRUE

\* Whether the resolver's answer passes "info.get('validated') is True".
AliasValidated(info) == info.validated = TRUE

\* verify_dnssec without the test of the PKI type: dnssec+ecdsa is verified
\* as dnssec+btc is.
verify_dnssec_any_type(pr, info, req, err) ==
    IF info.raises
    THEN Outcome("raised", err, req, <<>>, {"resolve"})
    ELSE IF ~AliasValidated(info)
    THEN Outcome("False", AliasUnverified, req, <<>>, {"resolve"})
    ELSE IF verify_message(info.address, pr.signature)
         THEN Outcome("True", VerifiedWithDNSSEC, <<pr.alias>>, <<>>,
                      {"resolve", "verify_message"})
         ELSE Outcome("False", SignatureInvalid, <<pr.alias>>, <<>>,
                      {"resolve", "verify_message"})

\* PaymentRequest.verify_dnssec, with the resolver's answer info
verify_dnssec(pr, info, req, err) ==
    IF info.raises
    THEN Outcome("raised", err, req, <<>>, {"resolve"})
    ELSE IF ~AliasValidated(info)
    THEN Outcome("False", AliasUnverified, req, <<>>, {"resolve"})
    ELSE IF pr.pki_type = "dnssec+btc"
    THEN IF verify_message(info.address, pr.signature)
         THEN Outcome("True", VerifiedWithDNSSEC, <<pr.alias>>, <<>>,
                      {"resolve", "verify_message"})
         ELSE Outcome("False", SignatureInvalid, <<pr.alias>>, <<>>,
                      {"resolve", "verify_message"})
    ELSE Outcome("False", UnknownAlgo, req, <<>>, {"resolve"})

\* PaymentRequest.verify on raw bytes r, with the resolver's answer info
VerifyOutcome(r, store, info, req, err) ==
    IF r.kind = "empty"
    THEN Outcome("None", EmptyRequest, req, <<>>, {})
    ELSE IF r.kind = "garbage"
    THEN Outcome("raised", err, req, <<>>, {})
    ELSE
    LET pr == r.env IN
        IF pr.signature = NoSignature
        THEN Outcome("None", MissingSignature, req, <<>>, {})
        ELSE IF pr.pki_type \in {"x509+sha256", "x509+sha1"}
        THEN verify_x509(pr, store, req, err)
        ELSE IF pr.pki_type \in {"dnssec+btc", "dnssec+ecdsa"}
        THEN verify_dnssec(pr, info, req, err)
        ELSE Outcome("False", UnsupportedPkiType, req, <<>>, {})

\* self.raw once verify has ended: verify decodes self.raw into a local
\* message and clears the signature of that copy only.
RawAfterCleared(r, o) ==
    IF r.kind = "envelope"
       /\ o.reached \cap {"envelope_signature", "verify_message"} # {}
    THEN [r EXCEPT !.env.signature = NoSignature]
    ELSE r

RawAfter(r, o) == r

\* PaymentRequest.__init__(data), with ca_list as the import left it.
InitRequest ==
    /\ raw \in Raws
    /\ ca_list \in TrustStores
    /\ requestor = <<>>
    /\ error = IF raw.kind = "garbage" THEN CannotParse ELSE NoStatus
    /\ result = "nocall"
    /\ x509_chain = <<>>
    /\ reached = {}
    /\ answer = NoAnswer
    /\ verified = FALSE
    /\ repeated = FALSE

\* A call pr.verify(contacts), the resolver answering info.
verify(info) ==
    LET o == VerifyOutcome(raw, ca_list, info, requestor, error) IN
    /\ result' = o.ret
    /\ error' = o.error
    /\ requestor' = o.requestor
    /\ x509_chain' = o.x509_chain
    /\ reached' = o.reached
    /\ answer' = IF "resolve" \in o.reached THEN info ELSE NoAnswer
    /\ verified' = (verified \/ o.ret = "True")
    /\ repeated' = (result # "nocall" /\ answer' = answer)
    /\ raw' = RawAfter(raw, o)
    /\ UNCHANGED ca_list
    /\ UNCHANGED <<storeVars, threadVars, ackVars>>

----------------------------------------------------------------------------
(* Requests as bytes                                                       *)

PR_UNPAID == 0
PR_EXPIRED == 1
PR_UNKNOWN == 2
PR_PAID == 3
PR_ERROR == 4

HexDigits ==
    <<"0", "1", "2", "3", "4", "5", "6", "7", "8", "9", "a", "b", "c", "d",
      "e", "f">>
HexValue(c) == CHOOSE v \in 0..15 : HexDigits[v + 1] = c

\* encode_hex with the low nibble first.
encode_hex_low_first(bytes) ==
    [i \in 1..(2 * Len(bytes)) |->
        IF i % 2 = 1
        THEN HexDigits[(bytes[(i + 1) \div 2] % 16) + 1]
        ELSE HexDigits[(bytes[i \div 2] \div 16) + 1]]

\* str.encode('hex'): two digits per byte, high nibble first.
encode_hex(bytes) ==
    [i \in 1..(2 * Len(bytes)) |->
        IF i % 2 = 1
        THEN HexDigits[(bytes[(i + 1) \div 2] \div 16) + 1]
        ELSE HexDigits[(bytes[i \div 2] % 16) + 1]]

\* str.decode('hex') raises on an odd length and on a non-digit.
hex_decodes(s) ==
    /\ Len(s) % 2 = 0
    /\ \A i \in 1..Len(s) : \E v \in 0..15 : HexDigits[v + 1] = s[i]
decode_hex(s) ==
    [i \in 1..(Len(s) \div 2) |->
        16 * HexValue(s[2 * i - 1]) + HexValue(s[2 * i])]

\* bitcoin.sha256(r)[0:16].encode('hex'): one id per byte string.
Id(r) == <<"#">> \o encode_hex(r)

\* pb2.PaymentRequest().ParseFromString(r), for the one field read here:
\* serialized_payment_details (field 4, tag 0x22, length-delimited). The
\* empty string is the empty message.
EnvelopeDecodes(r) ==
    r = <<>> \/ (Len(r) >= 2 /\ r[1] = 34 /\ r[2] = Len(r) - 2)
serialized_payment_details(r) ==
    IF r = <<>> THEN <<>> ELSE SubSeq(r, 3, Len(r))

\* pb2.PaymentDetails().ParseFromString(d), for the fields read here:
\* expires (field 4, tag 0x20, one-byte varint) and payment_url (field 6,
\* tag 0x32, length-delimited). ok is FALSE where decoding raises.
NoDetails == [ok |-> FALSE, expires |-> 0, payment_url |-> <<>>]
RECURSIVE ParseDetails(_, _)
ParseDetails(d, acc) ==
    IF d = <<>> THEN acc
    ELSE IF Len(d) >= 2 /\ d[1] = 32 /\ d[2] < 128
    THEN ParseDetails(SubSeq(d, 3, Len(d)), [acc EXCEPT !.expires = d[2]])
    ELSE IF Len(d) >= 2 /\ d[1] = 50 /\ d[2] <= Len(d) - 2
    THEN ParseDetails(SubSeq(d, 3 + d[2], Len(d)),
                      [acc EXCEPT !.payment_url = SubSeq(d, 3, 2 + d[2])])
    ELSE NoDetails

\* PaymentRequest.parse(r): "error" where the envelope does not decode (the
\* exception is caught, self.details is never assigned), "raised" where the
\* payment details do not decode, else "ok".
parse(r) ==
    IF ~EnvelopeDecodes(r) THEN "error"
    ELSE IF ~ParseDetails(serialized_payment_details(r),
                          [NoDetails EXCEPT !.ok = TRUE]).ok
    THEN "raised"
    ELSE "ok"
\* self.details of a request built from r, where parse assigned it.
details(r) ==
    ParseDetails(serialized_payment_details(r), [NoDetails EXCEPT !.ok = TRUE])

\* The byte strings requests are built from: the empty message, details
\* that expire at second 1 (without and with a payment URL), an undecodable
\* envelope, and an envelope around undecodable details.
DataPlain == <<>>
DataExpires == <<34, 2, 32, 1>>
DataUrl == <<34, 5, 32, 1, 50, 1, 117>>
DataBadEnvelope == <<255>>
DataBadDetails == <<34, 1, 255>>
Datas == {DataPlain, DataExpires, DataUrl, DataBadEnvelope, DataBadDetails}

\* A PaymentRequest object: the attributes the store reads.
Request(data, req, tx) == [raw |-> data, requestor |-> req, tx |-> tx]
\* PaymentRequest(data), for the byte strings whose construction returns.
PaymentRequest(data) == Request(data, <<>>, <<>>)
Constructs(data) == parse(data) # "raised"

\* int(time.time()), the clock counted in half seconds.
int_time(t) == t \div 2

\* PaymentRequest.has_expired(): the value of
\* "expires and expires < int(time.time())", or "raised" where self.details
\* was never assigned.
expired_before(expires, t) == expires <= t
expired(expires, t) == expires < t
has_expired(pr, t) ==
    IF parse(pr.raw) # "ok" THEN "raised"
    ELSE IF details(pr.raw).expires = 0 THEN "0"
    ELSE IF expired(details(pr.raw).expires, int_time(t)) THEN "True"
    ELSE "False"

----------------------------------------------------------------------------
(* InvoiceStore                                                            *)

MaxClock == 4

EmptyStore == [k \in {} |-> PaymentRequest(DataPlain)]

\* One value of the JSON object in the file; null and a missing member are
\* <<>>.
Record(hex, req, txid) == [hex |-> hex, requestor |-> req, txid |-> txid]

\* json.dumps of a dict, json.loads of an object: the members as pairs.
json_dumps(obj) == {<<k, obj[k]>> : k \in DOMAIN obj}
json_loads(entries) ==
    [k \in {e[1] : e \in entries} |-> (CHOOSE e \in entries : e[1] = k)[2]]

\* The file: absent, not JSON, a JSON list, or a JSON object.
File(state, entries) == [state |-> state, entries |-> entries]

\* InvoiceStore.load_invoices: the mapping it builds, or raised.
load_invoices(f) ==
    IF f.state \in {"missing", "garbled"}
    THEN [raised |-> FALSE, invoices |-> EmptyStore]
    ELSE IF f.state = "list"
    THEN [raised |-> TRUE, invoices |-> EmptyStore]
    ELSE LET d == json_loads(f.entries)
             kept == {k \in DOMAIN d :
                         /\ hex_decodes(d[k].hex)
                         /\ Constructs(decode_hex(d[k].hex))}
         IN  [raised |-> FALSE,
              invoices |->
                  [k \in kept |->
                      Request(decode_hex(d[k].hex), d[k].requestor,
                              d[k].txid)]]

\* InvoiceStore.save: the file it writes for a mapping.
save(inv) ==
    File("object",
         json_dumps([k \in DOMAIN inv |->
                        Record(encode_hex(inv[k].raw),
                               <<RequestorOf(inv[k].requestor)>>,
                               inv[k].tx)]))

\* InvoiceStore.get(k): <<>> for None.
get(k) == IF k \in DOMAIN invoices THEN <<invoices[k]>> ELSE <<>>

\* InvoiceStore.get_status(key) at time t: <<status>>, or <<>> where it
\* raises.
get_status(key, t) ==
    LET pr == get(key) IN
    IF pr = <<>> THEN <<>>
    ELSE IF pr[1].tx # <<>> THEN <<PR_PAID>>
    ELSE IF has_expired(pr[1], t) = "raised" THEN <<>>
    ELSE IF has_expired(pr[1], t) = "True" THEN <<PR_EXPIRED>>
    ELSE <<PR_UNPAID>>

\* The requests handed to add, the transaction ids handed to set_paid, the
\* keys handed to remove and set_paid.
Bob == <<"b", "o", "b">>
AddDatas == {DataPlain, DataExpires, DataBadEnvelope}
AddPool == {Request(d, r, <<>>) : d \in AddDatas, r \in {<<>>, <<Bob>>}}
TxHashes == {<<"t1">>}
ForeignKey == <<"k">>
KeyPool == {Id(d) : d \in AddDatas} \cup {ForeignKey}

\* The files a store may be constructed over.
FileEntries ==
    {<<Id(DataExpires), Record(encode_hex(DataExpires), <<Unknown>>, <<>>)>>,
     <<Id(DataPlain), Record(encode_hex(DataPlain), <<Bob>>, <<"t1">>)>>,
     <<ForeignKey, Record(encode_hex(DataBadEnvelope), <<>>, <<>>)>>,
     <<<<"d">>, Record(encode_hex(DataBadDetails), <<Unknown>>, <<>>)>>,
     <<<<"x">>, Record(<<"z", "z">>, <<Unknown>>, <<>>)>>,
     <<<<"o">>, Record(<<"2", "2", "0">>, <<Unknown>>, <<>>)>>}
InitialFiles ==
    {File("missing", {}), File("garbled", {}), File("list", {})} \cup
    {File("object", es) : es \in SUBSET FileEntries}

\* A call on the store: its name, its arguments (the key is pr.get_id() for
\* add), whether the key was stored when it began, whether it raised, and
\* the key it returned (<<>> for None).
Call(op, key, pr, tx, present, raised, ret) ==
    [op |-> op, key |-> key, pr |-> pr, tx |-> tx, present |-> present,
     raised |-> raised, ret |-> ret]
NoRequest == PaymentRequest(DataPlain)
NoCall == Call("none", <<>>, NoRequest, <<>>, FALSE, FALSE, <<>>)
Constructed(f) ==
    Call("__init__", <<>>, NoRequest, <<>>, FALSE, load_invoices(f).raised,
         <<>>)

\* InvoiceStore(config) over some file.
InitStore ==
    /\ file \in InitialFiles
    /\ invoices = load_invoices(file).invoices
    /\ constructed = ~load_invoices(file).raised
    /\ clock = 0
    /\ last = Constructed(file)

\* No store is in play.
StoreIdle ==
    /\ file = File("missing", {})
    /\ invoices = EmptyStore
    /\ constructed = FALSE
    /\ clock = 0
    /\ last = NoCall

\* InvoiceStore(config) again, over the file as it is.
InvoiceStore ==
    /\ invoices' = load_invoices(file).invoices
    /\ constructed' = ~load_invoices(file).raised
    /\ last' = Constructed(file)
    /\ UNCHANGED <<file, clock>>
    /\ UNCHANGED <<requestVars, threadVars, ackVars>>

\* add storing pr over a request already filed under its id.
add_overwriting(pr) ==
    LET key == Id(pr.raw) IN
    /\ constructed
    /\ last' = Call("add", key, pr, <<>>, key \in DOMAIN invoices, FALSE,
                    <<key>>)
    /\ invoices' = [k \in DOMAIN invoices \cup {key} |->
                       IF k = key THEN pr ELSE invoices[k]]
    /\ file' = save(invoices')
    /\ UNCHANGED <<constructed, clock>>
    /\ UNCHANGED <<requestVars, threadVars, ackVars>>

\* InvoiceStore.add(pr).
add(pr) ==
    LET key == Id(pr.raw) IN
    /\ constructed
    /\ last' = Call("add", key, pr, <<>>, key \in DOMAIN invoices, FALSE,
                    <<key>>)
    /\ IF key \in DOMAIN invoices
       THEN UNCHANGED <<invoices, file>>
       ELSE /\ invoices' = [k \in DOMAIN invoices \cup {key} |->
                               IF k = key THEN pr ELSE invoices[k]]
            /\ file' = save(invoices')
    /\ UNCHANGED <<constructed, clock>>
    /\ UNCHANGED <<requestVars, threadVars, ackVars>>

\* InvoiceStore.remove(key): pop raises KeyError on a key not stored.
remove(key) ==
    /\ constructed
    /\ last' = Call("remove", key, NoRequest, <<>>,
                    key \in DOMAIN invoices, key \notin DOMAIN invoices, <<>>)
    /\ IF key \in DOMAIN invoices
       THEN /\ invoices' = [k \in DOMAIN invoices \ {key} |-> invoices[k]]
            /\ file' = save(invoices')
       ELSE UNCHANGED <<invoices, file>>
    /\ UNCHANGED <<constructed, clock>>
    /\ UNCHANGED <<requestVars, threadVars, ackVars>>

\* set_paid marking every stored request.
set_paid_every(key, tx_hash) ==
    /\ constructed
    /\ last' = Call("set_paid", key, NoRequest, tx_hash,
                    key \in DOMAIN invoices, key \notin DOMAIN invoices, <<>>)
    /\ IF key \in DOMAIN invoices
       THEN /\ invoices' = [k \in DOMAIN invoices |->
                               [invoices[k] EXCEPT !.tx = tx_hash]]
            /\ file' = save(invoices')
       ELSE UNCHANGED <<invoices, file>>
    /\ UNCHANGED <<constructed, clock>>
    /\ UNCHANGED <<requestVars, threadVars, ackVars>>

\* InvoiceStore.set_paid(key, tx_hash): the subscript raises KeyError on a
\* key not stored.
set_paid(key, tx_hash) ==
    /\ constructed
    /\ last' = Call("set_paid", key, NoRequest, tx_hash,
                    key \in DOMAIN invoices, key \notin DOMAIN invoices, <<>>)
    /\ IF key \in DOMAIN invoices
       THEN /\ invoices' = [invoices EXCEPT ![key].tx = tx_hash]
            /\ file' = save(invoices')
       ELSE UNCHANGED <<invoices, file>>
    /\ UNCHANGED <<constructed, clock>>
    /\ UNCHANGED <<requestVars, threadVars, ackVars>>

\* Half a second passes.
tick ==
    /\ clock < MaxClock
    /\ clock' = clock + 1
    /\ UNCHANGED <<invoices, file, constructed, last>>
    /\ UNCHANGED <<requestVars, threadVars, ackVars>>

----------------------------------------------------------------------------
(* Two threads calling one InvoiceStore                                    *)

Threads == {"t1", "t2"}

\* No thread is in play.
ThreadsIdle ==
    /\ pc = [t \in Threads |-> "idle"]
    /\ l = [t \in Threads |-> {}]

\* A store whose file is as its last save left it.
InitThreads ==
    /\ file \in {save(load_invoices(f).invoices) :
                     f \in {g \in InitialFiles : g.state = "object"}}
    /\ invoices = load_invoices(file).invoices
    /\ constructed = TRUE
    /\ clock = 0
    /\ last = NoCall
    /\ ThreadsIdle

\* Thread t enters add(pr), up to the call of save.
begin_add(t, pr) ==
    LET key == Id(pr.raw) IN
    /\ pc[t] = "idle"
    /\ IF key \in DOMAIN invoices
       THEN /\ pc' = [pc EXCEPT ![t] = "done"]
            /\ UNCHANGED invoices
       ELSE /\ pc' = [pc EXCEPT ![t] = "modified"]
            /\ invoices' = [k \in DOMAIN invoices \cup {key} |->
                               IF k = key THEN pr ELSE invoices[k]]
    /\ UNCHANGED <<file, constructed, clock, last, l, requestVars, ackVars>>

\* Thread t enters remove(key), up to the call of save.
begin_remove(t, key) ==
    /\ pc[t] = "idle"
    /\ IF key \in DOMAIN invoices
       THEN /\ pc' = [pc EXCEPT ![t] = "modified"]
            /\ invoices' = [k \in DOMAIN invoices \ {key} |-> invoices[k]]
       ELSE /\ pc' = [pc EXCEPT ![t] = "done"]
            /\ UNCHANGED invoices
    /\ UNCHANGED <<file, constructed, clock, last, l, requestVars, ackVars>>

\* Thread t enters set_paid(key, tx_hash), up to the call of save.
begin_set_paid(t, key, tx_hash) ==
    /\ pc[t] = "idle"
    /\ IF key \in DOMAIN invoices
       THEN /\ pc' = [pc EXCEPT ![t] = "modified"]
            /\ invoices' = [invoices EXCEPT ![key].tx = tx_hash]
       ELSE /\ pc' = [pc EXCEPT ![t] = "done"]
            /\ UNCHANGED invoices
    /\ UNCHANGED <<file, constructed, clock, last, l, requestVars, ackVars>>

\* Thread t, in save, builds the dict from the mapping as it is now.
save_build(t) ==
    /\ pc[t] = "modified"
    /\ pc' = [pc EXCEPT ![t] = "built"]
    /\ l' = [l EXCEPT ![t] = save(invoices).entries]
    /\ UNCHANGED <<invoices, file, constructed, clock, last, requestVars,
                   ackVars>>

\* Thread t, in save, writes the file from the dict it built.
save_write(t) ==
    /\ pc[t] = "built"
    /\ pc' = [pc EXCEPT ![t] = "done"]
    /\ file' = File("object", l[t])
    /\ UNCHANGED <<invoices, constructed, clock, last, l, requestVars,
                   ackVars>>

----------------------------------------------------------------------------
(* send_ack                                                                *)

\* How requests.post ends: with a response, or raising SSLError, or raising
\* another requests exception.
Response(status_code, content) ==
    [exception |-> "none", status_code |-> status_code, content |-> content]
Raises(exception) ==
    [exception |-> exception, status_code |-> 0, content |-> ""]
NoReply == Raises("none")
\* content: a PaymentACK with its memo, or bytes that are none.
PostOutcomes ==
    {Response(c, m) : c \in {200, 404, 500, 503}, m \in {"thanks", "garbage"}}
    \cup {Raises("SSLError"), Raises("ConnectionError")}

\* r.reason of a response.
reason(status_code) ==
    CASE status_code = 200 -> "OK"
      [] status_code = 404 -> "Not Found"
      [] status_code = 500 -> "Internal Server Error"
      [] OTHER -> "Service Unavailable"

\* The Payment message send_ack serializes.
Payment(raw_tx, refund_addr) ==
    [transactions |-> <<raw_tx>>, refund_to |-> <<refund_addr>>,
     memo |-> "Paid using Electrum"]

\* One call of requests.post: its url, data and verify arguments, and how it
\* ended.
Post(url, data, verify_certs, outcome) ==
    [url |-> url, data |-> data, verify |-> verify_certs,
     ended |-> outcome.exception]

\* How send_ack ends: raising, or returning the pair (ok, msg).
AckResult(raised, ok, msg) == [raised |-> raised, ok |-> ok, msg |-> msg]
NoAckResult == AckResult(FALSE, FALSE, "")

AckArgs ==
    [data : {DataPlain, DataExpires, DataUrl, DataBadEnvelope},
     raw_tx : {"tx1", "tx2"}, refund_addr : {"addr1", "addr2"}]

\* No call of send_ack is in play.
AckIdle ==
    /\ ack_pc = "idle"
    /\ ack_args = [data |-> DataPlain, raw_tx |-> "", refund_addr |-> ""]
    /\ posts = <<>>
    /\ reply = NoReply
    /\ ack_result = NoAckResult

\* pr.send_ack(raw_tx, refund_addr) is called.
InitAck ==
    /\ ack_pc = "called"
    /\ ack_args \in AckArgs
    /\ posts = <<>>
    /\ reply = NoReply
    /\ ack_result = NoAckResult

\* send_ack up to the first POST: self.details is read (it was never
\* assigned where the envelope did not decode), then the payment URL.
send_ack ==
    /\ ack_pc = "called"
    /\ IF parse(ack_args.data) # "ok"
       THEN /\ ack_pc' = "done"
            /\ ack_result' = AckResult(TRUE, FALSE, "AttributeError")
       ELSE IF details(ack_args.data).payment_url = <<>>
       THEN /\ ack_pc' = "done"
            /\ ack_result' = AckResult(FALSE, FALSE, "no url")
       ELSE /\ ack_pc' = "first_post"
            /\ UNCHANGED ack_result
    /\ UNCHANGED <<ack_args, posts, reply>>
    /\ UNCHANGED <<requestVars, storeVars, threadVars>>

\* The exceptions the first POST's try statement catches.
first_post_catches(exception) == exception = "SSLError"

\* The first POST, with verify=ca_path.
first_post(outcome) ==
    /\ ack_pc = "first_post"
    /\ posts' = Append(posts,
                       Post(details(ack_args.data).payment_url,
                            Payment(ack_args.raw_tx, ack_args.refund_addr),
                            TRUE, outcome))
    /\ IF outcome.exception = "none"
       THEN /\ ack_pc' = "reply"
            /\ reply' = outcome
            /\ UNCHANGED ack_result
       ELSE IF first_post_catches(outcome.exception)
       THEN /\ ack_pc' = "second_post"
            /\ UNCHANGED <<reply, ack_result>>
       ELSE /\ ack_pc' = "done"
            /\ ack_result' = AckResult(TRUE, FALSE, outcome.exception)
            /\ UNCHANGED reply
    /\ UNCHANGED ack_args
    /\ UNCHANGED <<requestVars, storeVars, threadVars>>

\* The second POST, with verify=False, in the handler of SSLError.
second_post(outcome) ==
    /\ ack_pc = "second_post"
    /\ posts' = Append(posts,
                       Post(details(ack_args.data).payment_url,
                            Payment(ack_args.raw_tx, ack_args.refund_addr),
                            FALSE, outcome))
    /\ IF outcome.exception = "none"
       THEN /\ ack_pc' = "reply"
            /\ reply' = outcome
            /\ UNCHANGED ack_result
       ELSE /\ ack_pc' = "done"
            /\ ack_result' =
                   AckResult(FALSE, FALSE, "Payment Message/PaymentACK Failed")
            /\ UNCHANGED reply
    /\ UNCHANGED ack_args
    /\ UNCHANGED <<requestVars, storeVars, threadVars>>

\* send_ack from the response on.
read_ack ==
    /\ ack_pc = "reply"
    /\ ack_pc' = "done"
    /\ ack_result' =
           IF reply.status_code >= 500
           THEN AckResult(FALSE, FALSE, reason(reply.status_code))
           ELSE IF reply.content = "garbage"
           THEN AckResult(FALSE, FALSE, "PaymentACK could not be processed. Payment was sent; please manually verify that payment was received.")
           ELSE AckResult(FALSE, TRUE, reply.content)
    /\ UNCHANGED <<ack_args, posts, reply>>
    /\ UNCHANGED <<requestVars, storeVars, threadVars>>

Init == InitRequest /\ StoreIdle /\ ThreadsIdle /\ AckIdle

vars == <<requestVars, storeVars, threadVars, ackVars>>

Next == \E info \in ResolverAnswers : verify(info)

Spec == Init /\ [][Next]_vars

InitStoreSpec ==
    /\ InitStore
    /\ raw = Raw("empty", EmptyEnvelope) /\ ca_list = {}
    /\ requestor = <<>> /\ error = NoStatus /\ result = "nocall"
    /\ x509_chain = <<>> /\ reached = {} /\ answer = NoAnswer
    /\ verified = FALSE /\ repeated = FALSE
    /\ ThreadsIdle /\ AckIdle

NextStore ==
    \/ InvoiceStore
    \/ \E pr \in AddPool : add(pr)
    \/ \E key \in KeyPool : remove(key)
    \/ \E key \in KeyPool, tx_hash \in TxHashes : set_paid(key, tx_hash)
    \/ tick

StoreSpec == InitStoreSpec /\ [][NextStore]_vars

InitThreadSpec ==
    /\ InitThreads
    /\ raw = Raw("empty", EmptyEnvelope) /\ ca_list = {}
    /\ requestor = <<>> /\ error = NoStatus /\ result = "nocall"
    /\ x509_chain = <<>> /\ reached = {} /\ answer = NoAnswer
    /\ verified = FALSE /\ repeated = FALSE
    /\ AckIdle

NextThreads ==
    \E t \in Threads :
        \/ \E pr \in AddPool : begin_add(t, pr)
        \/ \E key \in KeyPool : begin_remove(t, key)
        \/ \E key \in KeyPool, tx_hash \in TxHashes :
               begin_set_paid(t, key, tx_hash)
        \/ save_build(t)
        \/ save_write(t)

ThreadSpec == InitThreadSpec /\ [][NextThreads]_vars

InitAckSpec ==
    /\ InitAck
    /\ raw = Raw("empty", EmptyEnvelope) /\ ca_list = {}
    /\ requestor = <<>> /\ error = NoStatus /\ result = "nocall"
    /\ x509_chain = <<>> /\ reached = {} /\ answer = NoAnswer
    /\ verified = FALSE /\ repeated = FALSE
    /\ StoreIdle /\ ThreadsIdle

NextAck ==
    \/ send_ack
    \/ \E outcome \in PostOutcomes : first_post(outcome)
    \/ \E outcome \in PostOutcomes : second_post(outcome)
    \/ read_ack

AckSpec == InitAckSpec /\ [][NextAck]_vars

----------------------------------------------------------------------------
(* What the claims speak of                                                *)

Called == result # "nocall"
Failed == result \in {"False", "None"}
\* The request is a signed x509+sha1 / x509+sha256 envelope: verify hands it
\* to verify_x509.
SignedX509 ==
    /\ raw.kind = "envelope"
    /\ raw.env.pki_type \in {"x509+sha256", "x509+sha1"}
    /\ raw.env.signature # NoSignature
\* The request is a signed dnssec+btc / dnssec+ecdsa envelope.
SignedDnssec ==
    /\ raw.kind = "envelope"
    /\ raw.env.pki_type \in {"dnssec+btc", "dnssec+ecdsa"}
    /\ raw.env.signature # NoSignature
Supplied == raw.env.certs
AllParse(certs) == \A i \in 1..Len(certs) : certs[i].parses

\* The digest a supported certificate algorithm signs.
DigestOf(algo) ==
    CASE algo = ALGO_RSA_SHA1 -> "sha1"
      [] algo = ALGO_RSA_SHA256 -> "sha256"
      [] algo = ALGO_RSA_SHA384 -> "sha384"
      [] algo = ALGO_RSA_SHA512 -> "sha512"
      [] OTHER -> "unsupported"
\* Certificate c carries a valid signature of issuer's key, in the supported
\* algorithm c declares.
IsSignedBy(c, issuer) ==
    c.sig.key = issuer.publicKey /\ c.sig.digest = DigestOf(c.algo)
LinksValid(chain) ==
    \A i \in 1..(Len(chain) - 1) : IsSignedBy(chain[i], chain[i + 1])
\* The envelope carries a valid signature of the leaf's key, with the digest
\* of its PKI type.
EnvelopeSignedBy(env, leaf) ==
    /\ env.signature.key = leaf.publicKey
    /\ env.signature.digest =
           (IF env.pki_type = "x509+sha256" THEN "sha256" ELSE "sha1")
\* The stored roots filed under the issuer key identifier of the last
\* supplied certificate.
StoredIssuers == {r \in ca_list : r.publicKey = Supplied[Len(Supplied)].issuerKeyID}
\* The checks before trust-anchor resolution pass: the trust store is loaded,
\* at least two certificates are supplied and parse, the leaf is inside its
\* validity window and every later certificate has the CA flag.
PassesEarlyChecks ==
    /\ ca_list # {}
    /\ Len(Supplied) >= 2
    /\ AllParse(Supplied)
    /\ Supplied[1].date = "valid"
    /\ \A i \in 2..Len(Supplied) : Supplied[i].ca

----------------------------------------------------------------------------
(* C1 *)

\* C1: verify on an x509 request returns True only if, in that call, the trust
\* store is loaded, at least two certificates were supplied, the leaf is
\* inside its validity window, every supplied certificate after the leaf has
\* the CA flag, the last certificate of the final chain is in the trust store,
\* every link of the final chain is signed by the next certificate's key, and
\* the envelope is signed by the leaf's key.
C1_TrueOnlyIfAllChecksHeld ==
    (SignedX509 /\ result = "True") =>
        /\ ca_list # {}
        /\ Len(Supplied) >= 2
        /\ Supplied[1].date = "valid"
        /\ \A i \in 2..Len(Supplied) : Supplied[i].ca
        /\ SubSeq(x509_chain, 1, Len(Supplied)) = Supplied
        /\ x509_chain[Len(x509_chain)] \in ca_list
        /\ LinksValid(x509_chain)
        /\ EnvelopeSignedBy(raw.env, Supplied[1])

\* A call returned True on a chain of three supplied certificates.
C1_Witness ==
    SignedX509 /\ result = "True" /\ Len(Supplied) = 3

----------------------------------------------------------------------------
(* C2 *)

\* C2: for every two-certificate chain whose leaf is inside its validity
\* window, whose second certificate has the CA flag and is in the trust store,
\* and whose link and envelope signatures are valid, verify returns True and
\* get_requestor() is the leaf's common name without a leading "*.".
C2_ValidPairGivesStrippedName ==
    (/\ Called /\ SignedX509
     /\ Len(Supplied) = 2 /\ AllParse(Supplied)
     /\ Supplied[1].date = "valid"
     /\ Supplied[2].ca /\ Supplied[2] \in ca_list
     /\ IsSignedBy(Supplied[1], Supplied[2])
     /\ EnvelopeSignedBy(raw.env, Supplied[1]))
    => /\ result = "True"
       /\ get_requestor =
              (IF Len(Supplied[1].cn) >= 2 /\ SubSeq(Supplied[1].cn, 1, 2) = <<"*", ".">>
               THEN SubSeq(Supplied[1].cn, 3, Len(Supplied[1].cn))
               ELSE Supplied[1].cn)

----------------------------------------------------------------------------
(* C3 *)

\* C3 as stated: whenever the last supplied certificate is not in the trust
\* store, then if its issuer key identifier maps to a stored root, that root
\* is appended and verify returns True exactly when every link of the
\* extended chain and the envelope signature are valid; and if it maps to
\* none, verify fails with UntrustedCA.
C3_RecoveryAsStated ==
    (/\ Called /\ SignedX509 /\ ca_list # {}
     /\ Len(Supplied) >= 1 /\ AllParse(Supplied)
     /\ Supplied[Len(Supplied)] \notin ca_list)
    => IF StoredIssuers # {}
       THEN /\ \E root \in StoredIssuers : x509_chain = Append(Supplied, root)
            /\ (result = "True") <=>
                   (LinksValid(x509_chain) /\ EnvelopeSignedBy(raw.env, Supplied[1]))
       ELSE result = "False" /\ error = UntrustedCA

\* C3, amended: the same, for calls in which the checks before trust-anchor
\* resolution pass.
C3_RecoveryAfterEarlyChecks ==
    (/\ Called /\ SignedX509 /\ PassesEarlyChecks
     /\ Supplied[Len(Supplied)] \notin ca_list)
    => IF StoredIssuers # {}
       THEN /\ \E root \in StoredIssuers : x509_chain = Append(Supplied, root)
            /\ (result = "True") <=>
                   (LinksValid(x509_chain) /\ EnvelopeSignedBy(raw.env, Supplied[1]))
       ELSE result = "False" /\ error = UntrustedCA

\* A call recovered the root and returned True.
C3_Witness ==
    /\ SignedX509 /\ result = "True"
    /\ Supplied[Len(Supplied)] \notin ca_list
    /\ Len(x509_chain) = Len(Supplied) + 1

----------------------------------------------------------------------------
(* C4 *)

\* C4: a request whose certificate list holds exactly one certificate fails
\* with NoCertificates, whatever the leaf's validity window and whatever the
\* signatures (stated for the calls in which verify_x509 decodes and parses
\* the list).
C4_SingleCertificateIsNoCertificates ==
    (/\ Called /\ SignedX509 /\ ca_list # {}
     /\ Len(Supplied) = 1 /\ AllParse(Supplied))
    => Failed /\ error = NoCertificates

----------------------------------------------------------------------------
(* C5 *)

\* Certificate i (after the leaf) parses and lacks the CA flag.
LacksCAFlag(i) ==
    i \in 2..Len(Supplied) /\ Supplied[i].parses /\ ~Supplied[i].ca
SignatureSteps == {"trust_anchor", "chain_signatures", "envelope_signature"}

\* C5 as stated: for any chain in which some supplied certificate after the
\* leaf lacks the CA flag, verify_x509 fails with NotACertificateAuthority and
\* never reaches trust-anchor resolution or a signature check (stated for the
\* calls in which verify_x509 decodes and parses the list).
C5_NonCAAsStated ==
    (/\ Called /\ SignedX509 /\ ca_list # {} /\ AllParse(Supplied)
     /\ \E i \in 2..Len(Supplied) : LacksCAFlag(i))
    => /\ Failed /\ error = NotACertificateAuthority
       /\ reached \cap SignatureSteps = {}

\* C5, amended: for any such chain verify never returns True and never
\* reaches trust-anchor resolution or a signature check; it fails with
\* NotACertificateAuthority when the trust store is loaded, the leaf is inside
\* its validity window and every certificate before the first one lacking the
\* flag parses.
C5_NonCAAfterLeafChecks ==
    (Called /\ SignedX509 /\ \E i \in 2..Len(Supplied) : LacksCAFlag(i))
    => /\ result # "True"
       /\ reached \cap SignatureSteps = {}
       /\ (/\ ca_list # {}
           /\ Supplied[1].date = "valid"
           /\ \E i \in 2..Len(Supplied) :
                 LacksCAFlag(i) /\ \A j \in 1..(i - 1) : Supplied[j].parses)
          => Failed /\ error = NotACertificateAuthority

\* A call failed on a third certificate lacking the flag, behind a second
\* one that has it.
C5_Witness ==
    /\ Called /\ SignedX509 /\ ca_list # {}
    /\ Len(Supplied) = 3 /\ Supplied[2].parses /\ Supplied[2].ca
    /\ LacksCAFlag(3)
    /\ error = NotACertificateAuthority

----------------------------------------------------------------------------
(* C6 *)

\* C6: the requestor is set only by a successful verification: as long as no
\* call of verify has returned True, get_requestor() returns 'unknown'.
C6_RequestorUnknownUntilVerified ==
    ~verified => get_requestor = Unknown

----------------------------------------------------------------------------
(* C7 *)

IsSuccessMessage(e) ==
    e.msg \in {"Signed by Trusted CA: ", "Verified with DNSSEC"}

\* C7: every call of verify ends by returning, never by raising; a call that
\* does not return True leaves a failure message in the status, and the
\* status is a success message exactly when the call returned True.
C7_VerifyAlwaysReturns ==
    Called =>
        /\ result \in {"True", "False", "None"}
        /\ IsSuccessMessage(error) <=> (result = "True")
        /\ (result # "True") => (error # NoStatus)

----------------------------------------------------------------------------
(* C8 *)

\* C8: on success of X.509 verification the status names the common name of
\* the trusted root that ends the final chain: the last supplied certificate
\* when it is in the trust store, the recovered root otherwise.
C8_StatusNamesAnchoringRoot ==
    (SignedX509 /\ result = "True") =>
        error = SignedByTrustedCA(x509_chain[Len(x509_chain)].cn)

----------------------------------------------------------------------------
(* C9 *)

\* The envelope's signature is a valid address-bound signature of address.
MessageSignedBy(env, address) ==
    env.signature.key = address /\ env.signature.digest = "btc"
Resolved == "resolve" \in reached /\ ~answer.raises

\* C9: on a signed dnssec request, when the resolver's answer is not
\* validated, verify fails with AliasUnverified and the address-bound
\* signature is not evaluated; verify returns True only when the alias is
\* validated and the signature verifies against the resolved address.
C9_UnvalidatedAliasFails ==
    (Called /\ SignedDnssec) =>
        /\ (Resolved /\ ~answer.validated) =>
               /\ result = "False" /\ error = AliasUnverified
               /\ "verify_message" \notin reached
        /\ (result = "True") =>
               /\ Resolved /\ answer.validated
               /\ MessageSignedBy(raw.env, answer.address)

\* A call failed on an unvalidated alias although the signature is a valid
\* signature of the resolved address.
C9_Witness ==
    /\ Called /\ SignedDnssec /\ Resolved /\ ~answer.validated
    /\ MessageSignedBy(raw.env, answer.address)
    /\ error = AliasUnverified

----------------------------------------------------------------------------
(* C10 *)

SignedEcdsa == SignedDnssec /\ raw.env.pki_type = "dnssec+ecdsa"

\* C10 as stated: on every signed dnssec+ecdsa request verify never returns
\* True and fails with the 'unknown algo' status, which is not the status of
\* an unrecognised PKI type (stated for the calls the resolver answers).
C10_EcdsaAsStated ==
    (Called /\ SignedEcdsa /\ Resolved) =>
        /\ ~verified
        /\ result = "False" /\ error = UnknownAlgo
        /\ UnknownAlgo # UnsupportedPkiType

\* C10, amended: on every signed dnssec+ecdsa request verify never returns
\* True; when the resolver answers, it fails with 'unknown algo' if the alias
\* is validated and with AliasUnverified if it is not; neither is the status
\* of an unrecognised PKI type.
C10_EcdsaAfterAliasCheck ==
    (Called /\ SignedEcdsa) =>
        /\ ~verified
        /\ Resolved =>
              /\ result = "False"
              /\ error = (IF answer.validated THEN UnknownAlgo ELSE AliasUnverified)
              /\ error # UnsupportedPkiType

\* A call on a dnssec+ecdsa request with a validated alias and a signature
\* valid for the resolved address failed with 'unknown algo'.
C10_Witness ==
    /\ Called /\ SignedEcdsa /\ Resolved /\ answer.validated
    /\ MessageSignedBy(raw.env, answer.address)
    /\ error = UnknownAlgo

----------------------------------------------------------------------------
(* C18 *)

\* The last supplied certificate is in the trust store, or a stored root is
\* filed under its issuer key identifier.
Anchored == Supplied[Len(Supplied)] \in ca_list \/ StoredIssuers # {}
\* The links of the final chain that fail, by the index of the signed
\* certificate.
FailingLinks ==
    {i \in 1..(Len(x509_chain) - 1) :
         ~IsSignedBy(x509_chain[i], x509_chain[i + 1])}
\* What the late steps of verify_x509 must report: UntrustedCA without an
\* anchor; otherwise the failure of the lowest failing link;
\* EnvelopeSignatureInvalid only behind an anchor and valid links.
LatePrecedence ==
    /\ ~Anchored => (result = "False" /\ error = UntrustedCA)
    /\ (Anchored /\ FailingLinks # {}) =>
           LET i == CHOOSE k \in FailingLinks : \A m \in FailingLinks : k <= m
           IN  /\ Failed
               /\ error = (IF DigestOf(x509_chain[i].algo) = "unsupported"
                           THEN UnsupportedAlgorithm
                           ELSE ChainSignatureInvalid)
    /\ (error = EnvelopeSignatureInvalid) =>
           /\ Anchored /\ FailingLinks = {}
           /\ ~EnvelopeSignedBy(raw.env, Supplied[1])

\* C18 as stated: when the chain has at least two certificates, a valid leaf
\* date and CA flags, an untrusted and unrecoverable root yields UntrustedCA
\* whatever the links and the envelope signature; with a trusted root the
\* lowest failing link yields UnsupportedAlgorithm or ChainSignatureInvalid
\* whatever the envelope signature; EnvelopeSignatureInvalid is reported only
\* when every earlier step passed.
C18_LatePrecedenceAsStated ==
    (/\ Called /\ SignedX509
     /\ Len(Supplied) >= 2 /\ AllParse(Supplied)
     /\ Supplied[1].date = "valid"
     /\ \A i \in 2..Len(Supplied) : Supplied[i].ca)
    => LatePrecedence

\* C18, amended: the same, for calls in which the trust store is loaded; and
\* EnvelopeSignatureInvalid is the status of a call only if the checks before
\* trust-anchor resolution passed in it.
C18_LatePrecedenceWithTrustStore ==
    /\ (Called /\ SignedX509 /\ PassesEarlyChecks) => LatePrecedence
    /\ (Called /\ SignedX509 /\ error = EnvelopeSignatureInvalid)
           => PassesEarlyChecks

\* A call reported the unsupported algorithm of the first link although a
\* later link and the envelope signature are invalid too.
C18_Witness ==
    /\ Called /\ SignedX509 /\ PassesEarlyChecks
    /\ error = UnsupportedAlgorithm
    /\ 1 \in FailingLinks
    /\ \E i \in FailingLinks : i > 1 /\ DigestOf(x509_chain[i].algo) # "unsupported"
    /\ ~EnvelopeSignedBy(raw.env, Supplied[1])

----------------------------------------------------------------------------
(* C19 *)

\* C19: verify leaves the request's content as it was (the bytes it was built
\* from, of which id, details and outputs are decoded), and a call of verify
\* that follows another one under the same trust store and the same resolver
\* answer ends the same way and leaves the same status and requestor.
C19_VerifyTwiceSameOutcome ==
    [][/\ raw' = raw
       /\ (Called /\ ca_list' = ca_list /\ answer' = answer) =>
              /\ result' = result
              /\ error' = error
              /\ requestor' = requestor]_vars

\* A second call under the same resolver answer returned True on a dnssec
\* request.
C19_Witness ==
    repeated /\ result = "True" /\ SignedDnssec /\ Resolved
----------------------------------------------------------------------------
(* C14 *)

\* The stored requests whose payment details were decoded.
Decoded == {k \in DOMAIN invoices : parse(invoices[k].raw) = "ok"}

\* C14: has_expired() is true exactly when the declared expiry is non-zero
\* and strictly less than the current time in whole seconds: false when
\* expires = 0, false when the expiry is in the future, false when it equals
\* the current second (also half a second into it), true once a later second
\* has begun.
C14_ExpiredIffStrictlyPast ==
    \A k \in Decoded :
        LET e == details(invoices[k].raw).expires
            v == has_expired(invoices[k], clock)
        IN  /\ v \in {"0", "True", "False"}
            /\ (e = 0) => v # "True"
            /\ (e # 0 /\ clock < 2 * e) => v # "True"
            /\ (e # 0 /\ clock \in {2 * e, 2 * e + 1}) => v # "True"
            /\ (e # 0 /\ clock >= 2 * e + 2) => v = "True"

\* A stored request that expires at second 1 is not expired at 1.5 s.
C14_Witness ==
    \E k \in Decoded :
        /\ details(invoices[k].raw).expires = 1
        /\ clock = 3
        /\ has_expired(invoices[k], clock) = "False"

----------------------------------------------------------------------------
(* C13 *)

\* C13: for every stored invoice get_status returns PAID exactly when a
\* settling transaction id is present, otherwise EXPIRED exactly when
\* has_expired() is true, otherwise UNPAID; it never returns UNKNOWN or
\* ERROR.
C13_StatusByPrecedence ==
    \A k \in DOMAIN invoices :
        LET pr == invoices[k] IN
        get_status(k, clock) =
            IF pr.tx # <<>> THEN <<PR_PAID>>
            ELSE IF has_expired(pr, clock) = "True" THEN <<PR_EXPIRED>>
            ELSE <<PR_UNPAID>>

----------------------------------------------------------------------------
(* C12 *)

\* A step is a call of the named operation: it leaves its name in last and
\* the clock alone.
StepOf(op) == last'.op = op /\ clock' = clock
\* Every stored request but the one under key is as it was.
OthersUnchanged(key) ==
    /\ DOMAIN invoices' \ {key} = DOMAIN invoices \ {key}
    /\ \A k \in DOMAIN invoices \ {key} : invoices'[k] = invoices[k]

\* C12: add returns pr.get_id(); when that id is already stored it leaves the
\* mapping (the stored request, its requestor and transaction id) and the
\* file unchanged; when it is not, it stores pr under that id and rewrites
\* the file.
C12_AddIdempotent ==
    [][StepOf("add") =>
          LET key == Id(last'.pr.raw) IN
          /\ last'.ret = <<key>> /\ ~last'.raised
          /\ IF key \in DOMAIN invoices
             THEN invoices' = invoices /\ file' = file
             ELSE /\ key \in DOMAIN invoices'
                  /\ invoices'[key] = last'.pr
                  /\ OthersUnchanged(key)
                  /\ file' = save(invoices')
                  /\ file' # file]_vars

\* add was handed a request whose id is stored with another requestor.
C12_Witness ==
    /\ last.op = "add" /\ last.present
    /\ invoices[last.key].requestor # last.pr.requestor

----------------------------------------------------------------------------
(* C20 *)

\* C20: remove and set_paid on a key that is not stored raise and leave the
\* mapping and the file as they were; on a stored key remove leaves get(key)
\* absent and set_paid changes that request's transaction id only, every
\* other stored request unchanged.
C20_MissingKeyRaises ==
    [][/\ (StepOf("remove") \/ StepOf("set_paid")) =>
              /\ last'.raised <=> (last'.key \notin DOMAIN invoices)
              /\ last'.raised => (invoices' = invoices /\ file' = file)
              /\ OthersUnchanged(last'.key)
       /\ (StepOf("remove") /\ last'.key \in DOMAIN invoices) =>
              last'.key \notin DOMAIN invoices'
       /\ (StepOf("set_paid") /\ last'.key \in DOMAIN invoices) =>
              /\ last'.key \in DOMAIN invoices'
              /\ invoices'[last'.key] =
                     [invoices[last'.key] EXCEPT !.tx = last'.tx]]_vars

\* set_paid marked one stored request and another one is still unpaid.
C20_Witness ==
    /\ last.op = "set_paid" /\ last.present
    /\ invoices[last.key].tx = last.tx
    /\ \E k \in DOMAIN invoices : invoices[k].tx = <<>>

----------------------------------------------------------------------------
(* C11 *)

\* C11: after any sequence of add, remove and set_paid, a store constructed
\* from the file holds the ids of the mapping in memory and, for each id, the
\* same bytes, the same get_requestor() and the same transaction id.
C11_FileRoundTrip ==
    constructed =>
        LET again == load_invoices(file) IN
        /\ ~again.raised
        /\ DOMAIN again.invoices = DOMAIN invoices
        /\ \A k \in DOMAIN invoices :
               /\ again.invoices[k].raw = invoices[k].raw
               /\ RequestorOf(again.invoices[k].requestor) =
                      RequestorOf(invoices[k].requestor)
               /\ again.invoices[k].tx = invoices[k].tx

\* After a set_paid, the store holds a paid request, and a request without
\* requestor that the file records as 'unknown'.
C11_Witness ==
    /\ last.op = "set_paid" /\ last.present
    /\ \E k \in DOMAIN invoices :
           /\ invoices[k].requestor = <<>>
           /\ load_invoices(file).invoices[k].requestor = <<Unknown>>

----------------------------------------------------------------------------
(* C17 *)

\* The members of the file's object that are well formed: the hex decodes,
\* and so do the envelope and the payment details.
WellFormed(f) ==
    {e[1] : e \in {e \in f.entries :
                      /\ hex_decodes(e[2].hex)
                      /\ parse(decode_hex(e[2].hex)) = "ok"}}

\* C17: constructing a store never fails; a missing or unparsable file gives
\* the empty store; from a file holding an object, the store holds the
\* well-formed members and no other, so every request it holds has decoded
\* details and get_status on it does not raise.
C17_LoadSkipsMalformed ==
    (last.op = "__init__" /\ file.state # "list") =>
        /\ ~last.raised /\ constructed
        /\ file.state \in {"missing", "garbled"} => invoices = EmptyStore
        /\ file.state = "object" => DOMAIN invoices = WellFormed(file)
        /\ \A k \in DOMAIN invoices :
               /\ parse(invoices[k].raw) = "ok"
               /\ get_status(k, clock) # <<>>

----------------------------------------------------------------------------
(* C16 *)

\* The threads between their change in memory and the end of their rewrite
\* of the file.
Writers == {t \in Threads : pc[t] \in {"modified", "built"}}

\* C16: the mutating calls are serialized (at most one thread at a time is
\* between its change in memory and the end of its rewrite of the file); so,
\* once two calls started concurrently on one store have both finished, the
\* file is the one save writes for the mapping in memory. Stated by that
\* consequence.
C16_WritersSerialized ==
    (\A t \in Threads : pc[t] = "done") => file = save(invoices)
----------------------------------------------------------------------------
(* C15 *)

\* The request declares a payment URL.
HasUrl ==
    parse(ack_args.data) = "ok" /\ details(ack_args.data).payment_url # <<>>
Ended == ack_pc = "done"

\* C15: send_ack issues no POST when the request declares no payment URL and
\* returns the failure 'no url'; otherwise it issues one POST with
\* certificate verification, and a second one, without verification, only
\* after the first ended in a transport or TLS failure, and never a third;
\* a failure of the first POST never reaches the caller as an exception, and
\* a failure of the second ends the call with a failure result (stated for
\* the requests whose payment details were decoded).
C15_PostsAsStated ==
    (parse(ack_args.data) = "ok") =>
        /\ ~HasUrl =>
               /\ posts = <<>>
               /\ Ended => ack_result = AckResult(FALSE, FALSE, "no url")
        /\ HasUrl =>
               /\ Len(posts) <= 2
               /\ Ended => Len(posts) >= 1
               /\ Len(posts) >= 1 => posts[1].verify
               /\ Len(posts) = 2 =>
                      ~posts[2].verify /\ posts[1].ended # "none"
               /\ (Ended /\ posts[1].ended # "none") => ~ack_result.raised
               /\ (Ended /\ Len(posts) = 2 /\ posts[2].ended # "none") =>
                      ~ack_result.raised /\ ~ack_result.ok

=============================================================================
